---- MODULE Spec2Model ----
(***************************************************************************)
(* Model of kiwi's PartitionerMsDos (src/kiwi/partitioner/msdos.py): the    *)
(* msdos partition table builder.  The builder's fields are the state, one *)
(* action stands for one public method call (create, set_flag,             *)
(* resize_table), and every Command.run the call makes is recorded, with   *)
(* its argv and the fdisk script fed to it, in the order it was issued.    *)
(***************************************************************************)
EXTENDS Integers, Sequences, FiniteSets, TLC

\* ------------------------------------------------------------------ bounds
\* number of create calls made on one builder
MaxCalls == 5

\* ------------------------------------------------------ inputs of the model
\* Python's None
None == "None"

\* the device path PartitionerBase keeps in self.disk_device
disk_device == "/dev/loop0"

\* mbsize arguments: the 'all_free' sentinel or a megabyte count, the count
\* written as Python's format() prints it
Sizes == {"all_free", "50", "2048"}

\* start_sector values the constructor is given: unset, zero, a sector
StartSectors == {None, "0", "2048"}

\* names that are no key of flag_map
UnknownFlags == {"t.bogus"}

\* the keys post_init puts into flag_map
FlagNames ==
  {"f.active", "t.linux", "t.swap", "t.lvm", "t.raid", "t.efi", "t.csm",
   "t.prep", "t.extended"}

\* type_name arguments of create
TypeNames == {"t.linux", "t.swap", "t.efi"} \cup UnknownFlags

\* secondary flag lists of create
FlagLists ==
  { <<>>, <<"f.active">>, <<"t.csm">>, <<"f.active", "t.prep">>,
    <<"t.prep", "f.active">>, <<"t.bogus", "f.active">> }

\* The outcomes of the Command.run calls of one method call: the set of the
\* positions (1 = first Command.run of the call) at which Command.run raises.
Faults == {{}, {1}, {2}, {3}}

\* partition_id arguments of a direct set_flag call
SlotIds == 0 .. 5

\* the requests of the end-to-end scenario, in order (the name argument is
\* only logged)
Scenario ==
  << [mbsize |-> "50", type_name |-> "t.linux", flags |-> <<>>],
     [mbsize |-> "2048", type_name |-> "t.swap", flags |-> <<>>],
     [mbsize |-> "all_free", type_name |-> "t.linux",
      flags |-> <<"f.active">>] >>

\* ------------------------------------------------------------------- state
VARIABLES
  extended_layout,  \* self.extended_layout
  partition_id,     \* self.partition_id
  start_sector,     \* self.start_sector
  flag_map,         \* self.flag_map
  ncalls,           \* number of create calls made so far
  slots,            \* one entry per fdisk script issued so far, in order
  last,             \* the last method call: arguments, Command.run calls, outcome
  scenario          \* Command.run calls made while the calls follow Scenario

vars ==
  <<extended_layout, partition_id, start_sector, flag_map, ncalls, slots,
    last, scenario>>

\* -------------------------------------------------------------- exceptions
NoError == "ok"
FlagError == "KiwiPartitionerMsDosFlagError"
CommandError == "KiwiCommandError"

\* ------------------------------------------------------- helper operators
\* Python truth value of a flag_map value (True, a non-empty string, None)
Truthy(v) == v # None /\ v # ""

\* 'not self.start_sector': None and the integer 0 are false
IsUnset(v) == v = None \/ v = "0"

\* format(partition_id)
format(n) == ToString(n)

\* the primary script without the test for the 'all_free' sentinel
PrimaryScript_no_sentinel(id, start, mbsize) ==
  << "n", "p", format(id),
     IF IsUnset(start) THEN "" ELSE start,
     "+" \o mbsize \o "M",
     "w", "q" >>

\* 'n\np\n{0}\n{1}\n{2}\nw\nq\n' and its siblings, as the list of lines
PrimaryScript(id, start, mbsize) ==
  << "n", "p", format(id),
     IF IsUnset(start) THEN "" ELSE start,
     IF mbsize = "all_free" THEN "" ELSE "+" \o mbsize \o "M",
     "w", "q" >>

ExtendedScript(id) == << "n", "e", format(id), "", "", "w", "q" >>

LogicalScript(id, mbsize) ==
  << "n", format(id), "",
     IF mbsize = "all_free" THEN "" ELSE "+" \o mbsize \o "M",
     "w", "q" >>

\* what a script asks fdisk for
ScriptKind(s) ==
  IF Len(s) = 7 /\ s[2] = "p" THEN "primary"
  ELSE IF Len(s) = 7 /\ s[2] = "e" THEN "extended"
  ELSE "logical"
ScriptSlot(s) == IF Len(s) = 7 THEN s[3] ELSE s[2]
ScriptStart(s) == IF Len(s) = 7 THEN s[4] ELSE s[3]
ScriptSize(s) == IF Len(s) = 7 THEN s[5] ELSE s[4]

\* one Command.run call: its argv and, for fdisk, the script piped into it
FdiskCmd(script) ==
  [argv |-> <<"bash", "-c", "cat fdisk_input | fdisk " \o disk_device>>,
   script |-> script]
PartedCmd(id) ==
  [argv |-> <<"parted", disk_device, "set", format(id), "boot", "on">>,
   script |-> <<>>]
SfdiskCmd(id, code) ==
  [argv |-> <<"sfdisk", "-c", disk_device, format(id), code>>,
   script |-> <<>>]

IsFdisk(e) == e.argv[1] = "bash"
IsParted(e) == e.argv[1] = "parted"
IsSfdisk(e) == e.argv[1] = "sfdisk"

\* the builder while one method call runs: the fields the call may write,
\* the Command.run calls and warnings made so far, the exception in flight
Self(call) ==
  [extended_layout |-> extended_layout, flag_map |-> flag_map,
   partition_id |-> partition_id, start_sector |-> start_sector,
   call |-> call, slots |-> slots, events |-> <<>>, warnings |-> <<>>,
   raised |-> NoError]

\* Command.run(argv): recorded, and raises where the outcome says so
Command_run(self, cmd, faults) ==
  [self EXCEPT !.events = Append(@, cmd),
               !.raised = IF (Len(self.events) + 1) \in faults
                          THEN CommandError ELSE NoError]

\* log.warning('Flag %s ignored on msdos', flag_name)
log_warning(self, flag_name) ==
  [self EXCEPT !.warnings = Append(@, flag_name)]

\* post_init with the GPT code of the EFI partition given to t.efi
post_init_efi_code ==
  [f \in FlagNames |->
     CASE f = "f.active" -> "True"
       [] f = "t.linux" -> "83"
       [] f = "t.swap" -> "82"
       [] f = "t.lvm" -> "8e"
       [] f = "t.raid" -> "fd"
       [] f = "t.efi" -> "ef"
       [] f = "t.csm" -> None
       [] f = "t.prep" -> "41"
       [] f = "t.extended" -> "5"]

\* PartitionerMsDos.post_init: the flag map
post_init ==
  [f \in FlagNames |->
     CASE f = "f.active" -> "True"
       [] f = "t.linux" -> "83"
       [] f = "t.swap" -> "82"
       [] f = "t.lvm" -> "8e"
       [] f = "t.raid" -> "fd"
       [] f = "t.efi" -> None
       [] f = "t.csm" -> None
       [] f = "t.prep" -> "41"
       [] f = "t.extended" -> "5"]

\* set_flag that takes a name missing from the map for an unsupported one
set_flag_unknown_ignored(self, id, flag_name, faults) ==
  IF flag_name \in DOMAIN self.flag_map /\ Truthy(self.flag_map[flag_name])
  THEN IF flag_name = "f.active"
       THEN Command_run(self, PartedCmd(id), faults)
       ELSE Command_run(self, SfdiskCmd(id, self.flag_map[flag_name]), faults)
  ELSE log_warning(self, flag_name)

\* set_flag that addresses self.partition_id instead of its argument
set_flag_own_id(self, id, flag_name, faults) ==
  IF flag_name \notin DOMAIN self.flag_map
  THEN [self EXCEPT !.raised = FlagError]
  ELSE IF Truthy(self.flag_map[flag_name])
  THEN IF flag_name = "f.active"
       THEN Command_run(self, PartedCmd(self.partition_id), faults)
       ELSE Command_run(
              self, SfdiskCmd(self.partition_id, self.flag_map[flag_name]),
              faults)
  ELSE log_warning(self, flag_name)

\* set_flag that enters a name missing from the map as an unsupported flag
set_flag_registers_unknown(self, id, flag_name, faults) ==
  IF flag_name \notin DOMAIN self.flag_map
  THEN log_warning(
         [self EXCEPT !.flag_map =
            [f \in DOMAIN self.flag_map \cup {flag_name} |->
               IF f \in DOMAIN self.flag_map THEN self.flag_map[f]
               ELSE None]],
         flag_name)
  ELSE IF Truthy(self.flag_map[flag_name])
  THEN IF flag_name = "f.active"
       THEN Command_run(self, PartedCmd(id), faults)
       ELSE Command_run(self, SfdiskCmd(id, self.flag_map[flag_name]),
                        faults)
  ELSE log_warning(self, flag_name)

\* set_flag that stores its partition_id argument in self.partition_id
set_flag_moves_cursor(self, id, flag_name, faults) ==
  IF flag_name \notin DOMAIN self.flag_map
  THEN [self EXCEPT !.raised = FlagError]
  ELSE IF Truthy(self.flag_map[flag_name])
  THEN IF flag_name = "f.active"
       THEN Command_run([self EXCEPT !.partition_id = id], PartedCmd(id),
                        faults)
       ELSE Command_run(
              [self EXCEPT !.partition_id = id],
              SfdiskCmd(id, self.flag_map[flag_name]), faults)
  ELSE log_warning(self, flag_name)

\* PartitionerMsDos.set_flag
set_flag(self, id, flag_name, faults) ==
  IF flag_name \notin DOMAIN self.flag_map
  THEN [self EXCEPT !.raised = FlagError]
  ELSE IF Truthy(self.flag_map[flag_name])
  THEN IF flag_name = "f.active"
       THEN Command_run(self, PartedCmd(id), faults)
       ELSE Command_run(self, SfdiskCmd(id, self.flag_map[flag_name]), faults)
  ELSE log_warning(self, flag_name)

\* the for loop of _set_all_flags inside a try/except that goes on with the
\* next flag
RECURSIVE set_flags_loop_keeps_going(_, _, _)
set_flags_loop_keeps_going(self, flags, faults) ==
  IF flags = <<>> THEN self
  ELSE set_flags_loop_keeps_going(
         set_flag([self EXCEPT !.raised = NoError], self.partition_id,
                  Head(flags), faults),
         Tail(flags), faults)

\* the for loop of _set_all_flags; an exception ends it
RECURSIVE set_flags_loop(_, _, _)
set_flags_loop(self, flags, faults) ==
  IF flags = <<>> \/ self.raised # NoError THEN self
  ELSE set_flags_loop(
         set_flag(self, self.partition_id, Head(flags), faults),
         Tail(flags), faults)

\* _set_all_flags that applies the secondary flags before the type name
_set_all_flags_flags_first(self, type_name, flags, faults) ==
  LET s1 == set_flags_loop(self, flags, faults)
  IN  IF s1.raised # NoError THEN s1
      ELSE set_flag(s1, s1.partition_id, type_name, faults)

\* _set_all_flags that applies the type name only
_set_all_flags_type_only(self, type_name, flags, faults) ==
  set_flag(self, self.partition_id, type_name, faults)

\* PartitionerMsDos._set_all_flags
_set_all_flags(self, type_name, flags, faults) ==
  set_flags_loop(
    set_flag(self, self.partition_id, type_name, faults), flags, faults)

\* _call_fdisk that runs fdisk a second time when the first run raised
_call_fdisk_retry(self, script, faults) ==
  LET r1 == Command_run(self, FdiskCmd(script), faults)
      r2 == IF r1.raised = NoError THEN r1
            ELSE Command_run(r1, FdiskCmd(script), faults)
  IN  [r2 EXCEPT
         !.raised = NoError,
         !.slots = Append(@, [kind |-> ScriptKind(script),
                              id |-> self.partition_id,
                              slot |-> ScriptSlot(script),
                              start |-> ScriptStart(script),
                              call |-> self.call])]

\* PartitionerMsDos._call_fdisk: the exception of Command.run is swallowed
_call_fdisk(self, script, faults) ==
  [Command_run(self, FdiskCmd(script), faults) EXCEPT
     !.raised = NoError,
     !.slots = Append(@, [kind |-> ScriptKind(script),
                          id |-> self.partition_id,
                          slot |-> ScriptSlot(script),
                          start |-> ScriptStart(script),
                          call |-> self.call])]

\* _create_primary that checks every flag name before it touches anything
_create_primary_checks_first(self, mbsize, type_name, flags, faults) ==
  IF \E i \in DOMAIN (<<type_name>> \o flags) :
       (<<type_name>> \o flags)[i] \notin DOMAIN self.flag_map
  THEN [self EXCEPT !.raised = FlagError]
  ELSE LET s1 == [self EXCEPT !.partition_id = @ + 1]
           s2 == IF s1.partition_id > 1
                 THEN [s1 EXCEPT !.start_sector = None] ELSE s1
           s3 == _call_fdisk(
                   s2,
                   PrimaryScript(s2.partition_id, s2.start_sector, mbsize),
                   faults)
       IN  _set_all_flags(s3, type_name, flags, faults)

\* _create_primary that clears start_sector one partition late
_create_primary_keeps_start(self, mbsize, type_name, flags, faults) ==
  LET s1 == [self EXCEPT !.partition_id = @ + 1]
      s2 == IF s1.partition_id > 2
            THEN [s1 EXCEPT !.start_sector = None] ELSE s1
      s3 == _call_fdisk(
              s2, PrimaryScript(s2.partition_id, s2.start_sector, mbsize),
              faults)
  IN  _set_all_flags(s3, type_name, flags, faults)

\* PartitionerMsDos._create_primary
_create_primary(self, mbsize, type_name, flags, faults) ==
  LET s1 == [self EXCEPT !.partition_id = @ + 1]
      s2 == IF s1.partition_id > 1
            THEN [s1 EXCEPT !.start_sector = None] ELSE s1
      s3 == _call_fdisk(
              s2, PrimaryScript(s2.partition_id, s2.start_sector, mbsize),
              faults)
  IN  _set_all_flags(s3, type_name, flags, faults)

\* _create_extended that also sets the type code of the container
_create_extended_sets_type(self, faults) ==
  LET s1 == [self EXCEPT !.partition_id = @ + 1]
      s2 == _call_fdisk(s1, ExtendedScript(s1.partition_id), faults)
  IN  [set_flag(s2, s2.partition_id, "t.extended", {}) EXCEPT
         !.raised = NoError]

\* _create_extended that reuses the last slot number
_create_extended_no_increment(self, faults) ==
  _call_fdisk(self, ExtendedScript(self.partition_id), faults)

\* PartitionerMsDos._create_extended
_create_extended(self, faults) ==
  LET s1 == [self EXCEPT !.partition_id = @ + 1]
  IN  _call_fdisk(s1, ExtendedScript(s1.partition_id), faults)

\* PartitionerMsDos._create_logical
_create_logical(self, mbsize, type_name, flags, faults) ==
  LET s1 == [self EXCEPT !.partition_id = @ + 1]
      s2 == _call_fdisk(s1, LogicalScript(s1.partition_id, mbsize), faults)
  IN  _set_all_flags(s2, type_name, flags, faults)

\* create that takes the extended route in either layout mode
create_always_extended(self, mbsize, type_name, flags, faults) ==
  IF self.partition_id < 3
  THEN _create_primary(self, mbsize, type_name, flags, faults)
  ELSE IF self.partition_id = 3
  THEN _create_logical(
         _create_extended(self, faults), mbsize, type_name, flags, faults)
  ELSE _create_logical(self, mbsize, type_name, flags, faults)

\* create with the primary boundary one slot early
create_boundary_two(self, mbsize, type_name, flags, faults) ==
  IF self.extended_layout
  THEN IF self.partition_id < 2
       THEN _create_primary(self, mbsize, type_name, flags, faults)
       ELSE IF self.partition_id = 2
       THEN _create_logical(
              _create_extended(self, faults), mbsize, type_name, flags,
              faults)
       ELSE _create_logical(self, mbsize, type_name, flags, faults)
  ELSE _create_primary(self, mbsize, type_name, flags, faults)

\* create that leaves the request unserved at the primary boundary
create_extended_only(self, mbsize, type_name, flags, faults) ==
  IF self.extended_layout
  THEN IF self.partition_id < 3
       THEN _create_primary(self, mbsize, type_name, flags, faults)
       ELSE IF self.partition_id = 3
       THEN _create_extended(self, faults)
       ELSE _create_logical(self, mbsize, type_name, flags, faults)
  ELSE _create_primary(self, mbsize, type_name, flags, faults)

\* PartitionerMsDos.create: the routing
create(self, mbsize, type_name, flags, faults) ==
  IF self.extended_layout
  THEN IF self.partition_id < 3
       THEN _create_primary(self, mbsize, type_name, flags, faults)
       ELSE IF self.partition_id = 3
       THEN _create_logical(
              _create_extended(self, faults), mbsize, type_name, flags,
              faults)
       ELSE _create_logical(self, mbsize, type_name, flags, faults)
  ELSE _create_primary(self, mbsize, type_name, flags, faults)

\* resize_table that starts the table over
resize_table_resets(self, entries) ==
  [self EXCEPT !.partition_id = 0]

\* PartitionerMsDos.resize_table: pass
resize_table(self, entries) == self

\* ------------------------------------------------------------------- Init
\* PartitionerBase.__init__: the fields the constructor sets
PartitionerBase_init ==
  /\ extended_layout \in BOOLEAN
  /\ start_sector \in StartSectors
  /\ partition_id = 0

Init ==
  /\ PartitionerBase_init
  /\ flag_map = post_init
  /\ ncalls = 0
  /\ slots = <<>>
  /\ last = [op |-> "init", args |-> <<>>, faults |-> {}, before |-> 0,
             events |-> <<>>, warnings |-> <<>>, raised |-> NoError]
  /\ scenario = [step |-> 0, events |-> <<>>]

\* ---------------------------------------------------------------- actions
\* the record of a finished call; faults keeps the Command.run calls that
\* raised
Outcome(op, args, faults, r) ==
  [op |-> op, args |-> args,
   faults |-> faults \cap (1 .. Len(r.events)),
   before |-> partition_id,
   events |-> r.events, warnings |-> r.warnings, raised |-> r.raised]

\* a caller's create(name, mbsize, type_name, flags)
Create ==
  /\ ncalls < MaxCalls
  /\ \E mbsize \in Sizes, type_name \in TypeNames, flags \in FlagLists,
        faults \in Faults :
       LET req == [mbsize |-> mbsize, type_name |-> type_name,
                   flags |-> flags]
       IN  \E r \in {create(Self(ncalls + 1), mbsize, type_name, flags,
                             faults)} :
           /\ extended_layout' = r.extended_layout
           /\ flag_map' = r.flag_map
           /\ partition_id' = r.partition_id
           /\ start_sector' = r.start_sector
           /\ slots' = r.slots
           /\ ncalls' = ncalls + 1
           /\ last' = Outcome("create", req, faults, r)
           /\ scenario' =
                IF /\ scenario.step = ncalls
                   /\ scenario.step < Len(Scenario)
                   /\ req = Scenario[scenario.step + 1]
                   /\ r.raised = NoError
                   /\ last.op \in {"init", "create"}
                THEN [step |-> scenario.step + 1,
                      events |-> scenario.events \o r.events]
                ELSE [step |-> -1, events |-> <<>>]

\* a caller's set_flag(partition_id, flag_name)
SetFlag ==
  /\ \E id \in SlotIds, flag_name \in FlagNames \cup UnknownFlags,
        faults \in {{}, {1}} :
       \E r \in {set_flag(Self(0), id, flag_name, faults)} :
           /\ extended_layout' = r.extended_layout
           /\ flag_map' = r.flag_map
           /\ partition_id' = r.partition_id
           /\ start_sector' = r.start_sector
           /\ slots' = r.slots
           /\ last' = Outcome("set_flag", <<id, flag_name>>, faults, r)
  /\ scenario' = [step |-> -1, events |-> <<>>]
  /\ UNCHANGED ncalls

\* a caller's resize_table(entries)
ResizeTable ==
  /\ \E entries \in {None, "4", "128"} :
       \E r \in {resize_table(Self(0), entries)} :
           /\ extended_layout' = r.extended_layout
           /\ flag_map' = r.flag_map
           /\ partition_id' = r.partition_id
           /\ start_sector' = r.start_sector
           /\ slots' = r.slots
           /\ last' = Outcome("resize_table", <<entries>>, {}, r)
  /\ scenario' = [step |-> -1, events |-> <<>>]
  /\ UNCHANGED ncalls

Next == Create \/ SetFlag \/ ResizeTable

Spec == Init /\ [][Next]_vars

\* ------------------------------------------------------ claim vocabulary
\* the Command.run calls of a list that are fdisk scripts, and the others
FdiskOf(events) == SelectSeq(events, IsFdisk)
FlagCmdsOf(events) == SelectSeq(events, LAMBDA e : ~IsFdisk(e))

\* a flag name with an encoding on msdos
Supported(f) == f \in DOMAIN flag_map /\ Truthy(flag_map[f])

\* the invocation a supported flag stands for on slot id
FlagCmd(id, f) ==
  IF f = "f.active" THEN PartedCmd(id) ELSE SfdiskCmd(id, flag_map[f])

\* the invocations a list of recognized flag names stands for on slot id
ExpectedFlagCmds(id, names) ==
  LET sup == SelectSeq(names, Supported)
  IN  [i \in 1 .. Len(sup) |-> FlagCmd(id, sup[i])]

\* the slots a create call produced
SlotsOfCall(c) == SelectSeq(slots, LAMBDA s : s.call = c)

\* the type name followed by the secondary flags of a create request
AllFlags(req) == <<req.type_name>> \o req.flags

\* ------------------------------------------------------------------ claims
\* C1: in simple mode every script issued asks for a primary partition and
\* partition_id equals the number of create calls made.
C1_SimpleAllPrimary ==
  ~extended_layout =>
    /\ partition_id = ncalls
    /\ Len(slots) = ncalls
    /\ \A i \in DOMAIN slots : slots[i].kind = "primary"
    /\ (last.op = "create" =>
          \A i \in DOMAIN last.events :
            IsFdisk(last.events[i]) =>
              ScriptKind(last.events[i].script) = "primary")

C1_Witness ==
  /\ ~extended_layout
  /\ ncalls = 5
  /\ Len(slots) = 5
  /\ last.op = "create"
  /\ last.raised = NoError

\* C2: in extended mode the extended container is created with slot number
\* 4, every logical partition with a slot number >= 5, and every slot
\* numbered below 4 as a primary partition.
C2_ExtendedSlotNumbers ==
  extended_layout =>
    \A i \in DOMAIN slots :
      /\ slots[i].kind = "extended" => slots[i].id = 4 /\ slots[i].slot = "4"
      /\ slots[i].kind = "logical" => slots[i].id >= 5
      /\ slots[i].id < 4 => slots[i].kind = "primary"

C2_Witness ==
  /\ extended_layout
  /\ \E i \in DOMAIN slots : slots[i].kind = "extended"
  /\ \E i \in DOMAIN slots : slots[i].kind = "logical" /\ slots[i].id = 6
  /\ \E i \in DOMAIN slots : slots[i].kind = "primary" /\ slots[i].id = 3

\* C3 as stated: in extended mode the first two requests become the primary
\* slots 1 and 2, the 3rd request creates the extended container and then
\* the first logical partition, and every later request becomes a logical
\* partition.
C3_ThirdRequestIsBoundary ==
  extended_layout =>
    \A c \in 1 .. ncalls :
      LET made == SlotsOfCall(c)
      IN  /\ c < 3 =>
               Len(made) = 1 /\ made[1].kind = "primary" /\ made[1].id = c
          /\ c = 3 =>
               /\ Len(made) = 2
               /\ made[1].kind = "extended"
               /\ made[2].kind = "logical"
          /\ c > 3 => Len(made) = 1 /\ made[1].kind = "logical"

\* C3 amended: in extended mode the first three requests become the primary
\* slots 1, 2 and 3; the 4th request is the one that consumes two slot
\* increments, creating the extended container (slot 4) and then the first
\* logical partition (slot 5) with the caller's size, type and flags; every
\* request beyond the 4th becomes one logical partition, at slot number
\* request + 1.
C3_FourthRequestIsBoundary ==
  extended_layout =>
    /\ \A c \in 1 .. ncalls :
         LET made == SlotsOfCall(c)
         IN  /\ c < 4 =>
                  Len(made) = 1 /\ made[1].kind = "primary" /\ made[1].id = c
             /\ c = 4 =>
                  /\ Len(made) = 2
                  /\ made[1].kind = "extended" /\ made[1].id = 4
                  /\ made[2].kind = "logical" /\ made[2].id = 5
             /\ c > 4 =>
                  /\ Len(made) = 1
                  /\ made[1].kind = "logical"
                  /\ made[1].id = c + 1
    /\ (last.op = "create" /\ ncalls = 4) =>
         /\ Len(last.events) >= 2
         /\ last.events[1] = FdiskCmd(<<"n", "e", "4", "", "", "w", "q">>)
         /\ IsFdisk(last.events[2])
         /\ ScriptKind(last.events[2].script) = "logical"
         /\ ScriptSlot(last.events[2].script) = "5"
         /\ ScriptSize(last.events[2].script) =
              (IF last.args.mbsize = "all_free" THEN ""
               ELSE "+" \o last.args.mbsize \o "M")
         /\ (last.raised = NoError =>
               SubSeq(last.events, 3, Len(last.events)) =
                 ExpectedFlagCmds(5, AllFlags(last.args)))

C3_Witness ==
  /\ extended_layout
  /\ ncalls = 5
  /\ partition_id = 6
  /\ Len(SlotsOfCall(4)) = 2
  /\ last.op = "create"
  /\ last.raised = NoError
  /\ last.args.flags = <<"f.active", "t.prep">>

\* what the scripts among a list of Command.run calls ask for
KindsOf(events) ==
  [i \in 1 .. Len(FdiskOf(events)) |-> ScriptKind(FdiskOf(events)[i].script)]
SlotNumbersOf(events) ==
  [i \in 1 .. Len(FdiskOf(events)) |-> ScriptSlot(FdiskOf(events)[i].script)]
StartTokensOf(events) ==
  [i \in 1 .. Len(FdiskOf(events)) |-> ScriptStart(FdiskOf(events)[i].script)]
SizeTokensOf(events) ==
  [i \in 1 .. Len(FdiskOf(events)) |-> ScriptSize(FdiskOf(events)[i].script)]

\* the three requests of Scenario were made, in order, on a fresh builder
ScenarioDone == scenario.step = 3

\* C4 as stated: the three scenario requests on an extended-mode builder
\* produce slot 1 (primary, t.linux), slot 2 (primary, t.swap), slot 3
\* (extended container) and slot 4 (logical, t.linux, boot flag), with a
\* start sector only in the script of slot 1.
C4_ScenarioAsStated ==
  (extended_layout /\ ScenarioDone) =>
    /\ KindsOf(scenario.events) =
         <<"primary", "primary", "extended", "logical">>
    /\ SlotNumbersOf(scenario.events) = <<"1", "2", "3", "4">>
    /\ FlagCmdsOf(scenario.events) =
         << SfdiskCmd(1, "83"), SfdiskCmd(2, "82"), SfdiskCmd(4, "83"),
            PartedCmd(4) >>
    /\ \A i \in 2 .. 4 : StartTokensOf(scenario.events)[i] = ""

\* C4 amended: the three scenario requests on an extended-mode builder
\* produce exactly slot 1 (primary, type t.linux), slot 2 (primary, type
\* t.swap) and slot 3 (primary, type t.linux), with slot 3 also receiving
\* the boot-active invocation; no extended container and no logical
\* partition is created, and a start sector is supplied only in the script
\* of slot 1.
C4_ScenarioThreePrimaries ==
  (extended_layout /\ ScenarioDone) =>
    /\ Len(scenario.events) = 7
    /\ KindsOf(scenario.events) = <<"primary", "primary", "primary">>
    /\ SlotNumbersOf(scenario.events) = <<"1", "2", "3">>
    /\ SizeTokensOf(scenario.events) = <<"+50M", "+2048M", "">>
    /\ FlagCmdsOf(scenario.events) =
         << SfdiskCmd(1, "83"), SfdiskCmd(2, "82"), SfdiskCmd(3, "83"),
            PartedCmd(3) >>
    /\ IsFdisk(scenario.events[1]) /\ IsSfdisk(scenario.events[2])
    /\ IsFdisk(scenario.events[3]) /\ IsSfdisk(scenario.events[4])
    /\ IsFdisk(scenario.events[5]) /\ IsSfdisk(scenario.events[6])
    /\ IsParted(scenario.events[7])
    /\ StartTokensOf(scenario.events)[1] \in {"", "2048"}
    /\ \A i \in 2 .. 3 : StartTokensOf(scenario.events)[i] = ""
    /\ partition_id = 3

C4_Witness ==
  /\ extended_layout
  /\ ScenarioDone
  /\ StartTokensOf(scenario.events)[1] = "2048"
  /\ last.args = Scenario[3]

\* C5: the number of primary-table entries created (primary partitions plus
\* the extended container) never exceeds 4, in either layout mode.
C5_AtMostFourPrimaryEntries ==
  Cardinality({i \in DOMAIN slots :
                 slots[i].kind \in {"primary", "extended"}}) <= 4

\* C6: partition_id counts the slots created: every script issued goes with
\* one step of +1, so the slot numbers of the successive scripts are
\* 1, 2, 3, ... without repeat or gap, in both layout modes.
C6_SlotCounter ==
  /\ partition_id = Len(slots)
  /\ partition_id >= last.before
  /\ \A i \in DOMAIN slots : slots[i].id = i /\ slots[i].slot = format(i)
  /\ (last.op = "create" =>
        /\ partition_id - last.before = Len(FdiskOf(last.events))
        /\ \A i \in DOMAIN FdiskOf(last.events) :
             SlotNumbersOf(last.events)[i] = format(last.before + i))

C6_Witness ==
  /\ extended_layout
  /\ last.op = "create"
  /\ last.before = 3
  /\ partition_id = 5
  /\ SlotNumbersOf(last.events) = <<"4", "5">>

\* C7: the start-sector token is non-empty only in the script of slot 1, a
\* primary partition, and only with a start sector configured; every later
\* script carries an empty start token, and start_sector is unset in every
\* state with partition_id >= 2.
C7_StartSectorOnlySlotOne ==
  /\ \A i \in DOMAIN slots :
       slots[i].start # "" => i = 1 /\ slots[i].kind = "primary"
  /\ partition_id = 1 =>
       slots[1].start = (IF IsUnset(start_sector) THEN "" ELSE start_sector)
  /\ partition_id >= 2 => start_sector = None
  /\ (last.op = "create" /\ last.before >= 1) =>
       \A i \in DOMAIN FdiskOf(last.events) :
         StartTokensOf(last.events)[i] = ""

C7_Witness ==
  /\ Len(slots) >= 5
  /\ slots[1].start = "2048"
  /\ slots[2].kind = "primary"
  /\ \E i \in DOMAIN slots : slots[i].kind = "logical"

\* C8: set_flag with a name that is no key of the flag map fails with
\* KiwiPartitionerMsDosFlagError and issues no external invocation, for
\* every slot number and builder state.
C8_UnknownFlagFails ==
  (last.op = "set_flag" /\ last.args[2] \notin DOMAIN flag_map) =>
    /\ last.raised = FlagError
    /\ last.events = <<>>
    /\ last.warnings = <<>>

C8_Witness ==
  /\ last.op = "set_flag"
  /\ last.args = <<5, "t.bogus">>
  /\ partition_id = 2
  /\ last.raised = FlagError

\* C9: set_flag with a recognized flag whose encoding is None (t.efi, t.csm)
\* issues no external invocation and raises nothing, only a warning is
\* logged; a create call with such a type_name or secondary flag, all of
\* whose flags are recognized and whose invocations succeed, returns
\* normally and issues no invocation for that flag.
C9_UnsupportedFlagSkipped ==
  /\ (last.op = "set_flag" /\ last.args[2] \in {"t.efi", "t.csm"}) =>
       /\ last.events = <<>>
       /\ last.raised = NoError
       /\ last.warnings = <<last.args[2]>>
  /\ ( /\ last.op = "create"
       /\ last.faults = {}
       /\ \A i \in DOMAIN AllFlags(last.args) :
            AllFlags(last.args)[i] \in FlagNames
       /\ \E i \in DOMAIN AllFlags(last.args) :
            AllFlags(last.args)[i] \in {"t.efi", "t.csm"} ) =>
       /\ last.raised = NoError
       /\ Len(last.warnings) >= 1
       /\ Len(FlagCmdsOf(last.events)) + Len(last.warnings) =
            Len(AllFlags(last.args))
       /\ \A i \in DOMAIN last.warnings :
            last.warnings[i] \in {"t.efi", "t.csm"}

C9_Witness ==
  /\ last.op = "create"
  /\ last.args.type_name = "t.efi"
  /\ last.args.flags = <<"t.csm">>
  /\ last.raised = NoError
  /\ last.warnings = <<"t.efi", "t.csm">>
  /\ Len(last.events) = 1

\* the type code of each supported type flag
TypeCode(f) ==
  CASE f = "t.linux" -> "83"
    [] f = "t.swap" -> "82"
    [] f = "t.lvm" -> "8e"
    [] f = "t.raid" -> "fd"
    [] f = "t.prep" -> "41"
    [] f = "t.extended" -> "5"

\* C10: set_flag with a supported flag issues exactly one external
\* invocation: parted <device> set <slot> boot on for f.active, and
\* sfdisk -c <device> <slot> <code> for every other supported flag, with
\* the code of that flag and the slot number passed in.
C10_SupportedFlagInvocation ==
  (last.op = "set_flag") =>
    /\ last.args[2] = "f.active" =>
         last.events =
           << [argv |-> <<"parted", disk_device, "set",
                          format(last.args[1]), "boot", "on">>,
               script |-> <<>>] >>
    /\ last.args[2] \in
         {"t.linux", "t.swap", "t.lvm", "t.raid", "t.prep", "t.extended"} =>
         last.events =
           << [argv |-> <<"sfdisk", "-c", disk_device,
                          format(last.args[1]), TypeCode(last.args[2])>>,
               script |-> <<>>] >>

C10_Witness ==
  /\ last.op = "set_flag"
  /\ last.args = <<4, "t.raid">>
  /\ partition_id = 1
  /\ Len(last.events) = 1
  /\ last.events[1].argv[5] = "fd"
  /\ last.raised = NoError

\* a is an initial part of b
IsPrefix(a, b) == Len(a) <= Len(b) /\ a = SubSeq(b, 1, Len(a))

\* the names of a list that come before its first name missing from the
\* flag map
KnownPrefix(names) ==
  LET bad == {i \in DOMAIN names : names[i] \notin FlagNames}
  IN  IF bad = {} THEN names
      ELSE SubSeq(names, 1,
                  (CHOOSE i \in bad : \A j \in bad : i <= j) - 1)

\* the Command.run calls of the last call after its fdisk scripts
AfterFdisk ==
  SubSeq(last.events, Len(FdiskOf(last.events)) + 1, Len(last.events))

\* the Command.run calls of the last call that raised were all fdisk runs
OnlyFdiskFailed ==
  /\ last.faults # {}
  /\ \A i \in last.faults : IsFdisk(last.events[i])

\* a flag-setting Command.run of the last call raised
FlagCmdFailed ==
  \E i \in last.faults : ~IsFdisk(last.events[i])

\* C11: within one create call the fdisk script invocation for the new slot
\* comes first, then the invocation of the type name, then one per
\* secondary flag in the order supplied; each of them addresses the slot
\* just created, the current partition_id.
C11_FlagOrder ==
  last.op = "create" =>
    LET n == Len(FdiskOf(last.events))
        expected ==
          ExpectedFlagCmds(partition_id, KnownPrefix(AllFlags(last.args)))
    IN  /\ n >= 1
        /\ \A i \in 1 .. n : IsFdisk(last.events[i])
        /\ ScriptSlot(last.events[n].script) = format(partition_id)
        /\ \A i \in DOMAIN AfterFdisk :
             AfterFdisk[i].argv[4] = format(partition_id)
        /\ IsPrefix(AfterFdisk, expected)
        /\ last.raised # CommandError => AfterFdisk = expected

C11_Witness ==
  /\ last.op = "create"
  /\ last.args.type_name = "t.swap"
  /\ last.args.flags = <<"t.prep", "f.active">>
  /\ last.raised = NoError
  /\ last.before = 4
  /\ Len(last.events) = 4
  /\ IsFdisk(last.events[1])
  /\ last.events[2].argv[5] = "82"
  /\ last.events[3].argv[5] = "41"
  /\ IsParted(last.events[4])

\* C12: a failure of the fdisk script invocation never fails the create
\* call: nothing propagates from it, fdisk is run exactly once per created
\* slot, partition_id stays incremented and the type flag and secondary
\* flags are applied as on success.
C12_FdiskFailureTolerated ==
  (last.op = "create" /\ OnlyFdiskFailed) =>
    /\ last.raised # CommandError
    /\ Len(FdiskOf(last.events)) = partition_id - last.before
    /\ partition_id > last.before
    /\ Len(slots) = partition_id
    /\ AfterFdisk =
         ExpectedFlagCmds(partition_id, KnownPrefix(AllFlags(last.args)))
    /\ (KnownPrefix(AllFlags(last.args)) = AllFlags(last.args)) =>
         last.raised = NoError

C12_Witness ==
  /\ last.op = "create"
  /\ last.faults = {1}
  /\ IsFdisk(last.events[1])
  /\ last.raised = NoError
  /\ last.args.flags = <<"f.active", "t.prep">>
  /\ Len(last.events) = 4
  /\ partition_id = last.before + 1

\* the position in names of the m-th name with an encoding
NthSupported(names, m) ==
  CHOOSE i \in DOMAIN names :
    /\ Supported(names[i])
    /\ Cardinality({j \in 1 .. i : Supported(names[j])}) = m

\* C13: a failure of a direct flag-setting invocation (parted or sfdisk) is
\* not swallowed: it propagates out of set_flag and out of the create call
\* that made it, and the flags after the failing one are not applied.
C13_FlagFailurePropagates ==
  (last.op \in {"create", "set_flag"} /\ FlagCmdFailed) =>
    /\ last.raised = CommandError
    /\ \A i \in last.faults :
         ~IsFdisk(last.events[i]) => i = Len(last.events)
    /\ last.op = "create" =>
         /\ IsPrefix(AfterFdisk,
                     ExpectedFlagCmds(partition_id, AllFlags(last.args)))
         /\ Len(AfterFdisk) + Len(last.warnings) =
              NthSupported(AllFlags(last.args), Len(AfterFdisk))

C13_Witness ==
  /\ last.op = "create"
  /\ last.faults = {2}
  /\ last.args.type_name = "t.linux"
  /\ last.args.flags = <<"f.active", "t.prep">>
  /\ last.raised = CommandError
  /\ Len(last.events) = 2
  /\ IsSfdisk(last.events[2])

\* C14: the size token of a script is empty for the 'all_free' sentinel and
\* '+<N>M' for a megabyte count N, for primary and logical partitions
\* alike, and always empty for the extended container.
C14_SizeToken ==
  last.op = "create" =>
    \A i \in DOMAIN FdiskOf(last.events) :
      LET script == FdiskOf(last.events)[i].script
      IN  IF ScriptKind(script) = "extended"
          THEN ScriptSize(script) = ""
          ELSE /\ last.args.mbsize = "all_free" => ScriptSize(script) = ""
               /\ last.args.mbsize = "50" => ScriptSize(script) = "+50M"
               /\ last.args.mbsize = "2048" => ScriptSize(script) = "+2048M"

C14_Witness ==
  /\ last.op = "create"
  /\ last.args.mbsize = "2048"
  /\ last.before = 3
  /\ SizeTokensOf(last.events) = <<"", "+2048M">>
  /\ KindsOf(last.events) = <<"extended", "logical">>

\* what a create call made now, for a bootable Linux partition of 50 MB,
\* produces
NextCreate ==
  create(Self(ncalls + 1), "50", "t.linux", <<"f.active">>, {})

\* C15: resize_table, for any argument and in any state, raises nothing,
\* issues no external invocation and leaves partition_id, start_sector, the
\* layout mode and the flag map unchanged, so that every later create call
\* produces what it would have produced without it.
C15_ResizeTableNoOp ==
  [][ last'.op = "resize_table" =>
        /\ last'.raised = NoError
        /\ last'.events = <<>>
        /\ last'.warnings = <<>>
        /\ partition_id' = partition_id
        /\ start_sector' = start_sector
        /\ extended_layout' = extended_layout
        /\ flag_map' = flag_map
        /\ slots' = slots
        /\ NextCreate' = NextCreate
    ]_vars

C15_Witness ==
  /\ last.op = "resize_table"
  /\ last.args = <<"128">>
  /\ partition_id = 3
  /\ extended_layout
  /\ last.raised = NoError

\* C16: the layout mode and the flag map keep, in every state reached by
\* create, set_flag and resize_table calls, the value they had right after
\* construction.
C16_LayoutAndFlagMapFixed ==
  [][ /\ extended_layout' = extended_layout
      /\ flag_map' = flag_map
      /\ flag_map = post_init ]_vars

C16_Witness ==
  /\ ncalls = 5
  /\ extended_layout
  /\ last.op = "set_flag"
  /\ last.args[2] = "t.bogus"
  /\ flag_map = post_init
  /\ DOMAIN flag_map = FlagNames

\* the last call was a create that failed with the unknown-flag error
CreateFailedOnFlag == last.op = "create" /\ last.raised = FlagError

\* C17: a create call that fails with the unknown-flag error is neither
\* checked up front nor rolled back: its fdisk scripts (two at the extended
\* boundary) were issued, partition_id was advanced by 1 (by 2 at the
\* boundary), every flag before the unknown one was applied, and the next
\* create call continues from the advanced counter.
C17_NoRollback ==
  [][ /\ (CreateFailedOnFlag' /\ ncalls' = ncalls + 1) =>
           LET made == IF extended_layout /\ partition_id = 3
                       THEN 2 ELSE 1
           IN  /\ partition_id' = partition_id + made
               /\ Len(FdiskOf(last'.events)) = made
               /\ Len(slots') = Len(slots) + made
               /\ KnownPrefix(AllFlags(last'.args)) # AllFlags(last'.args)
               /\ AfterFdisk' =
                    ExpectedFlagCmds(partition_id',
                                     KnownPrefix(AllFlags(last'.args)))
      /\ (CreateFailedOnFlag /\ ncalls' = ncalls + 1) =>
           /\ SlotNumbersOf(last'.events)[1] = format(partition_id + 1)
           /\ partition_id' > partition_id
           /\ IsPrefix(slots, slots')
    ]_vars

C17_Witness ==
  /\ CreateFailedOnFlag
  /\ extended_layout
  /\ last.before = 3
  /\ partition_id = 5
  /\ last.args.type_name = "t.linux"
  /\ last.args.flags = <<"t.bogus", "f.active">>
  /\ Len(last.events) = 3

\* C18: in extended mode the extended container is created at most once and
\* before any logical partition, and create issues no flag or type-code
\* invocation addressed to the container's slot; in simple mode no extended
\* container is created.
C18_ExtendedContainer ==
  LET ext == {i \in DOMAIN slots : slots[i].kind = "extended"}
  IN  /\ Cardinality(ext) <= 1
      /\ \A i \in DOMAIN slots :
           slots[i].kind = "logical" => \E j \in ext : j < i
      /\ ~extended_layout => ext = {}
      /\ last.op = "create" =>
           \A i \in DOMAIN FlagCmdsOf(last.events), j \in ext :
             FlagCmdsOf(last.events)[i].argv[4] # slots[j].slot

C18_Witness ==
  /\ extended_layout
  /\ last.op = "create"
  /\ last.before = 3
  /\ last.raised = NoError
  /\ KindsOf(last.events) = <<"extended", "logical">>
  /\ Len(AfterFdisk) = 3
  /\ AfterFdisk[1].argv[4] = "5"

\* C19: a set_flag call made by the caller, for any slot number and any
\* flag name, leaves partition_id and start_sector unchanged, and with them
\* (create reads nothing but these, the layout mode and the flag map) the
\* category and number of the slots later create calls produce.
C19_SetFlagFrame ==
  [][ (last'.op = "set_flag") =>
        /\ partition_id' = partition_id
        /\ start_sector' = start_sector
        /\ slots' = slots
        /\ ncalls' = ncalls
        /\ extended_layout' = extended_layout
        /\ flag_map' = flag_map
    ]_vars

C19_Witness ==
  /\ last.op = "set_flag"
  /\ last.args = <<5, "f.active">>
  /\ partition_id = 1
  /\ start_sector = "2048"
  /\ last.raised = NoError
  /\ Len(last.events) = 1
====
